---- MODULE Spec2Model ----
(***************************************************************************)
(* Model of fisscript.py: an interactive driver that runs nmap, parses its *)
(* output for web ports and runs gobuster on the ports the user picks.     *)
(*                                                                         *)
(* A Python str is a sequence of one-character strings, so that the text   *)
(* operations of the program (regex substitution, replace, strip, split,   *)
(* substring search, int()) are computed character by character.           *)
(***************************************************************************)
EXTENDS Integers, Sequences, FiniteSets, TLC

VARIABLES
    pc,             \* position of main
    fault,          \* exception that left main uncaught, "none" otherwise
    choice,         \* main: the stripped input of the tool prompt
    ip_address,     \* main: target typed by the user
    output_dir,     \* main: directory returned by get_output_directory
    nmap_options,   \* run_nmap: list of selected flags
    opt_choice,     \* run_nmap: the stripped input of the option prompt
    prompt,         \* main: the stripped input of the strategy prompt
    port_choice,    \* main: the stripped input of the port selection prompt
    nmap_file,      \* the nmap result file on disk
    parsed_ports,   \* value returned by parse_nmap_output (set of its elements)
    web_ports,      \* main: list of ports still available
    gobuster_ports, \* main: list of ports selected in the sub-loop
    todo,           \* run_gobuster: ports the for loop has not visited yet
    calls,          \* the scan steps taken so far, with their outcomes
    name_in,        \* argument handed to sanitize_name / clean_url
    once,           \* sanitize_name(name_in)
    twice,          \* sanitize_name(sanitize_name(name_in))
    cleaned         \* clean_url(name_in)

vars == <<pc, fault, choice, ip_address, output_dir, nmap_options, opt_choice,
          prompt, port_choice, nmap_file, parsed_ports, web_ports,
          gobuster_ports, todo, calls, name_in, once, twice, cleaned>>

mainVars == <<fault, choice, ip_address, output_dir, nmap_options, opt_choice,
              prompt, port_choice, nmap_file, parsed_ports, web_ports,
              gobuster_ports, todo, calls>>

sanVars == <<name_in, once, twice, cleaned>>

(***************************************************************************)
(* Bounds of the model.                                                    *)
(***************************************************************************)
MaxLen == 5         \* longest body of a name handed to the sanitizer
MaxLines == 3       \* most lines of a result file handed to the parser alone
MaxScanLines == 2   \* most lines nmap writes in a run of main

(***************************************************************************)
(* Characters and Python str primitives.                                   *)
(***************************************************************************)
Range(s) == {s[i] : i \in 1..Len(s)}

Lower == {"a","b","c","d","e","f","g","h","i","j","k","l","m",
          "n","o","p","q","r","s","t","u","v","w","x","y","z"}
Upper == {"A","B","C","D","E","F","G","H","I","J","K","L","M",
          "N","O","P","Q","R","S","T","U","V","W","X","Y","Z"}
Digits == {"0","1","2","3","4","5","6","7","8","9"}

\* A character that TLA+ cannot write is named by its code point, "U+0663";
\* the tables below list, for every character of Unicode, what the str
\* methods the program calls do with it.

\* "sup2" stands for the one character U+00B2 (superscript two): str.isdigit
\* accepts it, int() does not.
Sup2 == "sup2"

\* the characters str.strip() and int() drop: every character with
\* str.isspace(), ASCII and beyond
Whitespace ==
    {" ", "\t", "\n", "\r", "\f",
     "U+000B", "U+001C", "U+001D", "U+001E", "U+001F", "U+0085", "U+00A0",
     "U+1680", "U+2000", "U+2001", "U+2002", "U+2003", "U+2004", "U+2005",
     "U+2006", "U+2007", "U+2008", "U+2009", "U+200A", "U+2028", "U+2029",
     "U+202F", "U+205F", "U+3000"}

\* the decimal digits of Unicode (category Nd), one row per script, each row
\* in the order of the values 0..9; the first row is ASCII
DecimalRows == <<
    <<"0","1","2","3","4","5","6","7","8","9">>,
    <<"U+0660","U+0661","U+0662","U+0663","U+0664","U+0665","U+0666","U+0667","U+0668","U+0669">>,
    <<"U+06F0","U+06F1","U+06F2","U+06F3","U+06F4","U+06F5","U+06F6","U+06F7","U+06F8","U+06F9">>,
    <<"U+07C0","U+07C1","U+07C2","U+07C3","U+07C4","U+07C5","U+07C6","U+07C7","U+07C8","U+07C9">>,
    <<"U+0966","U+0967","U+0968","U+0969","U+096A","U+096B","U+096C","U+096D","U+096E","U+096F">>,
    <<"U+09E6","U+09E7","U+09E8","U+09E9","U+09EA","U+09EB","U+09EC","U+09ED","U+09EE","U+09EF">>,
    <<"U+0A66","U+0A67","U+0A68","U+0A69","U+0A6A","U+0A6B","U+0A6C","U+0A6D","U+0A6E","U+0A6F">>,
    <<"U+0AE6","U+0AE7","U+0AE8","U+0AE9","U+0AEA","U+0AEB","U+0AEC","U+0AED","U+0AEE","U+0AEF">>,
    <<"U+0B66","U+0B67","U+0B68","U+0B69","U+0B6A","U+0B6B","U+0B6C","U+0B6D","U+0B6E","U+0B6F">>,
    <<"U+0BE6","U+0BE7","U+0BE8","U+0BE9","U+0BEA","U+0BEB","U+0BEC","U+0BED","U+0BEE","U+0BEF">>,
    <<"U+0C66","U+0C67","U+0C68","U+0C69","U+0C6A","U+0C6B","U+0C6C","U+0C6D","U+0C6E","U+0C6F">>,
    <<"U+0CE6","U+0CE7","U+0CE8","U+0CE9","U+0CEA","U+0CEB","U+0CEC","U+0CED","U+0CEE","U+0CEF">>,
    <<"U+0D66","U+0D67","U+0D68","U+0D69","U+0D6A","U+0D6B","U+0D6C","U+0D6D","U+0D6E","U+0D6F">>,
    <<"U+0DE6","U+0DE7","U+0DE8","U+0DE9","U+0DEA","U+0DEB","U+0DEC","U+0DED","U+0DEE","U+0DEF">>,
    <<"U+0E50","U+0E51","U+0E52","U+0E53","U+0E54","U+0E55","U+0E56","U+0E57","U+0E58","U+0E59">>,
    <<"U+0ED0","U+0ED1","U+0ED2","U+0ED3","U+0ED4","U+0ED5","U+0ED6","U+0ED7","U+0ED8","U+0ED9">>,
    <<"U+0F20","U+0F21","U+0F22","U+0F23","U+0F24","U+0F25","U+0F26","U+0F27","U+0F28","U+0F29">>,
    <<"U+1040","U+1041","U+1042","U+1043","U+1044","U+1045","U+1046","U+1047","U+1048","U+1049">>,
    <<"U+1090","U+1091","U+1092","U+1093","U+1094","U+1095","U+1096","U+1097","U+1098","U+1099">>,
    <<"U+17E0","U+17E1","U+17E2","U+17E3","U+17E4","U+17E5","U+17E6","U+17E7","U+17E8","U+17E9">>,
    <<"U+1810","U+1811","U+1812","U+1813","U+1814","U+1815","U+1816","U+1817","U+1818","U+1819">>,
    <<"U+1946","U+1947","U+1948","U+1949","U+194A","U+194B","U+194C","U+194D","U+194E","U+194F">>,
    <<"U+19D0","U+19D1","U+19D2","U+19D3","U+19D4","U+19D5","U+19D6","U+19D7","U+19D8","U+19D9">>,
    <<"U+1A80","U+1A81","U+1A82","U+1A83","U+1A84","U+1A85","U+1A86","U+1A87","U+1A88","U+1A89">>,
    <<"U+1A90","U+1A91","U+1A92","U+1A93","U+1A94","U+1A95","U+1A96","U+1A97","U+1A98","U+1A99">>,
    <<"U+1B50","U+1B51","U+1B52","U+1B53","U+1B54","U+1B55","U+1B56","U+1B57","U+1B58","U+1B59">>,
    <<"U+1BB0","U+1BB1","U+1BB2","U+1BB3","U+1BB4","U+1BB5","U+1BB6","U+1BB7","U+1BB8","U+1BB9">>,
    <<"U+1C40","U+1C41","U+1C42","U+1C43","U+1C44","U+1C45","U+1C46","U+1C47","U+1C48","U+1C49">>,
    <<"U+1C50","U+1C51","U+1C52","U+1C53","U+1C54","U+1C55","U+1C56","U+1C57","U+1C58","U+1C59">>,
    <<"U+A620","U+A621","U+A622","U+A623","U+A624","U+A625","U+A626","U+A627","U+A628","U+A629">>,
    <<"U+A8D0","U+A8D1","U+A8D2","U+A8D3","U+A8D4","U+A8D5","U+A8D6","U+A8D7","U+A8D8","U+A8D9">>,
    <<"U+A900","U+A901","U+A902","U+A903","U+A904","U+A905","U+A906","U+A907","U+A908","U+A909">>,
    <<"U+A9D0","U+A9D1","U+A9D2","U+A9D3","U+A9D4","U+A9D5","U+A9D6","U+A9D7","U+A9D8","U+A9D9">>,
    <<"U+A9F0","U+A9F1","U+A9F2","U+A9F3","U+A9F4","U+A9F5","U+A9F6","U+A9F7","U+A9F8","U+A9F9">>,
    <<"U+AA50","U+AA51","U+AA52","U+AA53","U+AA54","U+AA55","U+AA56","U+AA57","U+AA58","U+AA59">>,
    <<"U+ABF0","U+ABF1","U+ABF2","U+ABF3","U+ABF4","U+ABF5","U+ABF6","U+ABF7","U+ABF8","U+ABF9">>,
    <<"U+FF10","U+FF11","U+FF12","U+FF13","U+FF14","U+FF15","U+FF16","U+FF17","U+FF18","U+FF19">>,
    <<"U+104A0","U+104A1","U+104A2","U+104A3","U+104A4","U+104A5","U+104A6","U+104A7","U+104A8","U+104A9">>,
    <<"U+10D30","U+10D31","U+10D32","U+10D33","U+10D34","U+10D35","U+10D36","U+10D37","U+10D38","U+10D39">>,
    <<"U+11066","U+11067","U+11068","U+11069","U+1106A","U+1106B","U+1106C","U+1106D","U+1106E","U+1106F">>,
    <<"U+110F0","U+110F1","U+110F2","U+110F3","U+110F4","U+110F5","U+110F6","U+110F7","U+110F8","U+110F9">>,
    <<"U+11136","U+11137","U+11138","U+11139","U+1113A","U+1113B","U+1113C","U+1113D","U+1113E","U+1113F">>,
    <<"U+111D0","U+111D1","U+111D2","U+111D3","U+111D4","U+111D5","U+111D6","U+111D7","U+111D8","U+111D9">>,
    <<"U+112F0","U+112F1","U+112F2","U+112F3","U+112F4","U+112F5","U+112F6","U+112F7","U+112F8","U+112F9">>,
    <<"U+11450","U+11451","U+11452","U+11453","U+11454","U+11455","U+11456","U+11457","U+11458","U+11459">>,
    <<"U+114D0","U+114D1","U+114D2","U+114D3","U+114D4","U+114D5","U+114D6","U+114D7","U+114D8","U+114D9">>,
    <<"U+11650","U+11651","U+11652","U+11653","U+11654","U+11655","U+11656","U+11657","U+11658","U+11659">>,
    <<"U+116C0","U+116C1","U+116C2","U+116C3","U+116C4","U+116C5","U+116C6","U+116C7","U+116C8","U+116C9">>,
    <<"U+11730","U+11731","U+11732","U+11733","U+11734","U+11735","U+11736","U+11737","U+11738","U+11739">>,
    <<"U+118E0","U+118E1","U+118E2","U+118E3","U+118E4","U+118E5","U+118E6","U+118E7","U+118E8","U+118E9">>,
    <<"U+11950","U+11951","U+11952","U+11953","U+11954","U+11955","U+11956","U+11957","U+11958","U+11959">>,
    <<"U+11C50","U+11C51","U+11C52","U+11C53","U+11C54","U+11C55","U+11C56","U+11C57","U+11C58","U+11C59">>,
    <<"U+11D50","U+11D51","U+11D52","U+11D53","U+11D54","U+11D55","U+11D56","U+11D57","U+11D58","U+11D59">>,
    <<"U+11DA0","U+11DA1","U+11DA2","U+11DA3","U+11DA4","U+11DA5","U+11DA6","U+11DA7","U+11DA8","U+11DA9">>,
    <<"U+16A60","U+16A61","U+16A62","U+16A63","U+16A64","U+16A65","U+16A66","U+16A67","U+16A68","U+16A69">>,
    <<"U+16AC0","U+16AC1","U+16AC2","U+16AC3","U+16AC4","U+16AC5","U+16AC6","U+16AC7","U+16AC8","U+16AC9">>,
    <<"U+16B50","U+16B51","U+16B52","U+16B53","U+16B54","U+16B55","U+16B56","U+16B57","U+16B58","U+16B59">>,
    <<"U+1D7CE","U+1D7CF","U+1D7D0","U+1D7D1","U+1D7D2","U+1D7D3","U+1D7D4","U+1D7D5","U+1D7D6","U+1D7D7">>,
    <<"U+1D7D8","U+1D7D9","U+1D7DA","U+1D7DB","U+1D7DC","U+1D7DD","U+1D7DE","U+1D7DF","U+1D7E0","U+1D7E1">>,
    <<"U+1D7E2","U+1D7E3","U+1D7E4","U+1D7E5","U+1D7E6","U+1D7E7","U+1D7E8","U+1D7E9","U+1D7EA","U+1D7EB">>,
    <<"U+1D7EC","U+1D7ED","U+1D7EE","U+1D7EF","U+1D7F0","U+1D7F1","U+1D7F2","U+1D7F3","U+1D7F4","U+1D7F5">>,
    <<"U+1D7F6","U+1D7F7","U+1D7F8","U+1D7F9","U+1D7FA","U+1D7FB","U+1D7FC","U+1D7FD","U+1D7FE","U+1D7FF">>,
    <<"U+1E140","U+1E141","U+1E142","U+1E143","U+1E144","U+1E145","U+1E146","U+1E147","U+1E148","U+1E149">>,
    <<"U+1E2F0","U+1E2F1","U+1E2F2","U+1E2F3","U+1E2F4","U+1E2F5","U+1E2F6","U+1E2F7","U+1E2F8","U+1E2F9">>,
    <<"U+1E950","U+1E951","U+1E952","U+1E953","U+1E954","U+1E955","U+1E956","U+1E957","U+1E958","U+1E959">>,
    <<"U+1FBF0","U+1FBF1","U+1FBF2","U+1FBF3","U+1FBF4","U+1FBF5","U+1FBF6","U+1FBF7","U+1FBF8","U+1FBF9">> >>

DecimalChars == {DecimalRows[r][k] : r \in 1..Len(DecimalRows), k \in 1..10}

\* the characters str.isdigit() accepts that are no decimal digit
\* (superscripts, circled digits, ...); int() rejects them
OtherDigits == {
    Sup2, "U+00B3", "U+00B9", "U+1369", "U+136A", "U+136B", "U+136C",
    "U+136D", "U+136E", "U+136F", "U+1370", "U+1371", "U+19DA", "U+2070",
    "U+2074", "U+2075", "U+2076", "U+2077", "U+2078", "U+2079", "U+2080",
    "U+2081", "U+2082", "U+2083", "U+2084", "U+2085", "U+2086", "U+2087",
    "U+2088", "U+2089", "U+2460", "U+2461", "U+2462", "U+2463", "U+2464",
    "U+2465", "U+2466", "U+2467", "U+2468", "U+2474", "U+2475", "U+2476",
    "U+2477", "U+2478", "U+2479", "U+247A", "U+247B", "U+247C", "U+2488",
    "U+2489", "U+248A", "U+248B", "U+248C", "U+248D", "U+248E", "U+248F",
    "U+2490", "U+24EA", "U+24F5", "U+24F6", "U+24F7", "U+24F8", "U+24F9",
    "U+24FA", "U+24FB", "U+24FC", "U+24FD", "U+24FF", "U+2776", "U+2777",
    "U+2778", "U+2779", "U+277A", "U+277B", "U+277C", "U+277D", "U+277E",
    "U+2780", "U+2781", "U+2782", "U+2783", "U+2784", "U+2785", "U+2786",
    "U+2787", "U+2788", "U+278A", "U+278B", "U+278C", "U+278D", "U+278E",
    "U+278F", "U+2790", "U+2791", "U+2792", "U+10A40", "U+10A41", "U+10A42",
    "U+10A43", "U+10E60", "U+10E61", "U+10E62", "U+10E63", "U+10E64", "U+10E65",
    "U+10E66", "U+10E67", "U+10E68", "U+11052", "U+11053", "U+11054", "U+11055",
    "U+11056", "U+11057", "U+11058", "U+11059", "U+1105A", "U+1F100", "U+1F101",
    "U+1F102", "U+1F103", "U+1F104", "U+1F105", "U+1F106", "U+1F107", "U+1F108",
    "U+1F109", "U+1F10A"}

\* the value of a decimal digit
DigitVal(c) ==
    (CHOOSE k \in 1..10 : \E r \in 1..Len(DecimalRows) : DecimalRows[r][k] = c) - 1

DigitChar(d) ==
    CASE d = 0 -> "0" [] d = 1 -> "1" [] d = 2 -> "2" [] d = 3 -> "3"
      [] d = 4 -> "4" [] d = 5 -> "5" [] d = 6 -> "6" [] d = 7 -> "7"
      [] d = 8 -> "8" [] d = 9 -> "9"

\* s[from:] for a 1-based from
Drop(s, n) == SubSeq(s, n + 1, Len(s))

\* s.startswith(p)
StartsWith(s, p) == Len(p) <= Len(s) /\ SubSeq(s, 1, Len(p)) = p

\* sub in s
Contains(s, sub) ==
    \E i \in 1..(Len(s) - Len(sub) + 1) : SubSeq(s, i, i + Len(sub) - 1) = sub

\* s.split(c)[0]: the text before the first c, all of s when c is absent
BeforeFirst(s, c) ==
    IF \A i \in 1..Len(s) : s[i] # c THEN s
    ELSE SubSeq(s, 1, (CHOOSE i \in 1..Len(s) :
                          s[i] = c /\ \A j \in 1..(i - 1) : s[j] # c) - 1)

\* s.split(c): the pieces between the occurrences of c
RECURSIVE Split(_, _)
Split(s, c) ==
    LET first == BeforeFirst(s, c)
    IN  IF Len(first) = Len(s) THEN <<first>>
        ELSE <<first>> \o Split(Drop(s, Len(first) + 1), c)

\* s.lstrip(chars): s from its first character outside chars on
LStrip(s, cs) ==
    IF s = <<>> \/ s[1] \notin cs THEN s
    ELSE IF \A i \in 1..Len(s) : s[i] \in cs THEN <<>>
    ELSE SubSeq(s, CHOOSE i \in 1..Len(s) :
                      s[i] \notin cs /\ \A j \in 1..(i - 1) : s[j] \in cs,
                Len(s))

\* s.rstrip(chars): s up to its last character outside chars
RStrip(s, cs) ==
    IF s = <<>> \/ s[Len(s)] \notin cs THEN s
    ELSE IF \A i \in 1..Len(s) : s[i] \in cs THEN <<>>
    ELSE SubSeq(s, 1, CHOOSE i \in 1..Len(s) :
                         s[i] \notin cs /\ \A j \in (i + 1)..Len(s) : s[j] \in cs)

StripChars(s, cs) == RStrip(LStrip(s, cs), cs)

\* s.strip()
Strip(s) == StripChars(s, Whitespace)

\* s.lower() == 'y': "y" and "Y" are the only characters str.lower() maps to
\* "y", and it maps no character to the empty string
LowersToY(s) == s \in {<<"y">>, <<"Y">>}

\* the characters str.isdigit() accepts
IsdigitChars == DecimalChars \cup OtherDigits

\* s.isdigit()
isdigit(s) == s # <<>> /\ \A i \in 1..Len(s) : s[i] \in IsdigitChars

\* A Python int has no width.  It is modelled by its sign and the decimal
\* digits of its magnitude, most significant first and without a leading
\* zero: 443 is [neg |-> FALSE, mag |-> <<4, 4, 3>>], zero has no digit and
\* no sign.  Two ints are equal exactly when these records are.

\* the digit zero of every script
ZeroChars == {DecimalRows[r][1] : r \in 1..Len(DecimalRows)}

\* the values of the digits of a numeral, its leading zeros left out
Magnitude(numeral) ==
    LET m == LStrip(numeral, ZeroChars)
    IN  SubSeq([i \in 1..Len(m) |-> DigitVal(m[i])], 1, Len(m))

\* the int with the given sign and magnitude
MakeInt(minus, mag) == [neg |-> minus /\ mag # <<>>, mag |-> mag]

\* the digits of a natural number
RECURSIVE DecimalDigits(_)
DecimalDigits(n) ==
    IF n = 0 THEN <<>> ELSE Append(DecimalDigits(n \div 10), n % 10)

\* the int a literal of the program stands for
Num(n) == MakeInt(n < 0, DecimalDigits(IF n < 0 THEN 0 - n ELSE n))

\* the most digits int() converts: sys.int_info.default_max_str_digits of
\* CPython 3.11 and later; a longer numeral raises ValueError
MaxStrDigits == 4300

\* the whitespace int() drops: the separators U+001C..U+001F are not in it
IntWhitespace == Whitespace \ {"U+001C", "U+001D", "U+001E", "U+001F"}

\* the characters of a numeral: the decimal digits and the underscore
IntChars == DecimalChars \cup {"_"}

\* int(s): surrounding whitespace is dropped, one sign is allowed, single
\* underscores may separate digits, a digit is a decimal digit of any script;
\* anything else raises ValueError, and so does a numeral of more than
\* MaxStrDigits digits, leading zeros counted.
int(s) ==
    LET t      == StripChars(s, IntWhitespace)
        signed == t # <<>> /\ Head(t) \in {"+", "-"}
        body   == IF signed THEN Tail(t) ELSE t
        wellformed ==
            /\ body # <<>>
            /\ \A i \in 1..Len(body) : body[i] \in IntChars
            /\ body[1] # "_" /\ body[Len(body)] # "_"
            /\ \A i \in 1..(Len(body) - 1) : ~(body[i] = "_" /\ body[i + 1] = "_")
        digits == SelectSeq(body, LAMBDA c : c # "_")
    IN  IF wellformed /\ Len(digits) <= MaxStrDigits
        THEN [raised |-> "none", val |-> MakeInt(signed /\ Head(t) = "-", Magnitude(digits))]
        ELSE [raised |-> "ValueError", val |-> Num(0)]

\* str(n): a minus sign for a negative int, then its digits, "0" for zero.
\* (str raises for an int of more than MaxStrDigits digits; int() returns
\* none, and the program makes an int in no other way.)
str(n) ==
    (IF n.neg THEN <<"-">> ELSE <<>>)
    \o (IF n.mag = <<>> THEN <<"0">>
        ELSE [i \in 1..Len(n.mag) |-> DigitChar(n.mag[i])])

(***************************************************************************)
(* sanitize_name and clean_url.                                            *)
(***************************************************************************)
\* the characters the pattern [^a-zA-Z0-9_\-./] does not match
AllowedCharacters == Lower \cup Upper \cup Digits \cup {"_", "-", ".", "/"}

\* allowed_characters.sub('_', name)
SubDisallowed(name) ==
    [i \in 1..Len(name) |-> IF name[i] \in AllowedCharacters THEN name[i] ELSE "_"]

\* str.replace('//', '/'): one left-to-right pass over non-overlapping matches
RECURSIVE ReplaceDoubleSlash(_)
ReplaceDoubleSlash(s) ==
    IF Len(s) < 2 THEN s
    ELSE IF s[1] = "/" /\ s[2] = "/"
         THEN <<"/">> \o ReplaceDoubleSlash(Drop(s, 2))
         ELSE <<s[1]>> \o ReplaceDoubleSlash(Tail(s))

sanitize_name(name) ==
    StripChars(ReplaceDoubleSlash(SubDisallowed(name)), {"/"})

HttpScheme  == <<"h","t","t","p",":","/","/">>
HttpsScheme == <<"h","t","t","p","s",":","/","/">>

\* re.sub(r'^https?://', '', url): the pattern is anchored, one match at most
StripScheme(url) ==
    IF StartsWith(url, HttpsScheme) THEN Drop(url, Len(HttpsScheme))
    ELSE IF StartsWith(url, HttpScheme) THEN Drop(url, Len(HttpScheme))
    ELSE url

\* clean_url without the cut at '#'
clean_url_keeps_fragment(url) ==
    sanitize_name(Split(StripScheme(url), "?")[1])

clean_url(url) ==
    sanitize_name(Split(Split(StripScheme(url), "#")[1], "?")[1])

(***************************************************************************)
(* Python values held in the port lists: an int or a str.  Two values are  *)
(* equal only when they are of the same kind.                              *)
(***************************************************************************)
PyInt(n) == [kind |-> "int", num |-> n, text |-> <<>>]
PyStr(s) == [kind |-> "str", num |-> Num(0), text |-> s]

\* f"{port}"
Format(port) == IF port.kind = "int" THEN str(port.num) ELSE port.text

(***************************************************************************)
(* parse_nmap_output.                                                      *)
(***************************************************************************)
NoFile == [path |-> <<>>, exists |-> FALSE, lines |-> <<>>]

Open_  == <<"o","p","e","n">>
Http_  == <<"h","t","t","p">>
Https_ == <<"h","t","t","p","s">>

\* "open" in line and ("http" in line or "https" in line)
IsWebLine(line) ==
    Contains(line, Open_) /\ (Contains(line, Http_) \/ Contains(line, Https_))

\* the for loop over the lines: the ports added so far, or the ValueError of
\* the first line whose leading token int() rejects
RECURSIVE ScanLines(_, _)
ScanLines(lines, acc) ==
    IF lines = <<>> THEN [raised |-> "none", ports |-> acc]
    ELSE IF IsWebLine(Head(lines))
         THEN LET port == int(Strip(BeforeFirst(Head(lines), "/")))
              IN  IF port.raised # "none"
                  THEN [raised |-> port.raised, ports |-> {}]
                  ELSE ScanLines(Tail(lines), acc \cup {PyInt(port.val)})
         ELSE ScanLines(Tail(lines), acc)

\* the set web_ports at the return, or the exception that leaves the function;
\* FileNotFoundError is caught and leaves the set empty
parse_nmap_output(file) ==
    IF ~file.exists THEN [raised |-> "none", ports |-> {}]
    ELSE ScanLines(file.lines, {})

\* list(web_ports): the elements of the set in some order
ListsOf(S) ==
    {l \in [1..Cardinality(S) -> S] : \A i, j \in 1..Cardinality(S) : l[i] = l[j] => i = j}

(***************************************************************************)
(* The sanitizer on its own: a name is drawn, sanitize_name is applied to  *)
(* it and to its own result, and clean_url is applied to it.               *)
(***************************************************************************)
NameAlphabet == {"a", "/", "#", "?"}

\* all sequences over S of length at most n
RECURSIVE SeqsUpTo(_, _)
SeqsUpTo(S, n) ==
    IF n = 0 THEN {<<>>}
    ELSE LET shorter == SeqsUpTo(S, n - 1)
         IN  shorter \cup {Append(s, c) : s \in {t \in shorter : Len(t) = n - 1}, c \in S}

SchemePrefixes == {<<>>, HttpScheme, HttpsScheme, HttpScheme \o HttpsScheme}

ExampleUrl ==
    <<"h","t","t","p","s",":","/","/","e","x","a","m","p","l","e",".","c","o","m",
      "/","a","?","x","=","1","#","f","r","a","g">>

ExampleCleaned ==
    <<"e","x","a","m","p","l","e",".","c","o","m","/","a">>

Names ==
    {p \o b : p \in SchemePrefixes, b \in SeqsUpTo(NameAlphabet, MaxLen)}
        \cup {ExampleUrl}

InitSan ==
    /\ pc = "san_in"
    /\ name_in \in Names
    /\ once = <<>> /\ twice = <<>> /\ cleaned = <<>>
    /\ fault = "none" /\ choice = <<>> /\ ip_address = <<>> /\ output_dir = <<>>
    /\ nmap_options = <<>> /\ opt_choice = <<>> /\ prompt = <<>>
    /\ port_choice = <<>>
    /\ nmap_file = NoFile
    /\ parsed_ports = {} /\ web_ports = <<>> /\ gobuster_ports = <<>>
    /\ todo = <<>> /\ calls = <<>>

SanitizeOnce ==
    /\ pc = "san_in"
    /\ once' = sanitize_name(name_in)
    /\ pc' = "san_once"
    /\ UNCHANGED <<name_in, twice, cleaned>>
    /\ UNCHANGED mainVars

SanitizeTwice ==
    /\ pc = "san_once"
    /\ twice' = sanitize_name(once)
    /\ pc' = "san_twice"
    /\ UNCHANGED <<name_in, once, cleaned>>
    /\ UNCHANGED mainVars

CleanUrl ==
    /\ pc = "san_twice"
    /\ cleaned' = clean_url(name_in)
    /\ pc' = "san_clean"
    /\ UNCHANGED <<name_in, once, twice>>
    /\ UNCHANGED mainVars

NextSan == SanitizeOnce \/ SanitizeTwice \/ CleanUrl

SpecSan == InitSan /\ [][NextSan]_vars

(***************************************************************************)
(* Properties of the sanitizer.                                            *)
(***************************************************************************)
NoDoubleSlash(s) == \A i \in 1..(Len(s) - 1) : ~(s[i] = "/" /\ s[i + 1] = "/")

NoEdgeSlash(s) == s = <<>> \/ (s[1] # "/" /\ s[Len(s)] # "/")

NonSlash(s) == SelectSeq(s, LAMBDA c : c # "/")

\* C6: sanitize_name is idempotent: applying it to its own result changes
\* nothing, for every input.
C6_Idempotent ==
    pc \in {"san_twice", "san_clean"} => twice = once

\* C7: the result of sanitize_name has no two consecutive slashes, neither
\* begins nor ends with a slash, and carries every character of the input
\* that is outside the allowlist as an underscore.
C7_Sanitized ==
    pc \in {"san_once", "san_twice", "san_clean"} =>
        /\ NoDoubleSlash(once)
        /\ NoEdgeSlash(once)
        /\ NonSlash(once) = NonSlash(SubDisallowed(name_in))

\* the url without one leading scheme, when it has one
WithoutOneScheme(u) ==
    IF \E p \in {HttpScheme, HttpsScheme} : StartsWith(u, p)
    THEN LET p == CHOOSE q \in {HttpScheme, HttpsScheme} : StartsWith(u, q)
         IN  SubSeq(u, Len(p) + 1, Len(u))
    ELSE u

\* the url up to, and without, its first '#' or '?'
BeforeFirstMarker(u) ==
    LET marks == {i \in 1..Len(u) : u[i] \in {"#", "?"}}
    IN  IF marks = {} THEN u
        ELSE SubSeq(u, 1, (CHOOSE i \in marks : \A j \in marks : i <= j) - 1)

\* C8: clean_url(u) is sanitize_name of u with at most one leading http://
\* or https:// removed and cut at the first '#' or '?', whichever is first;
\* the example URL of the specification gives example.com/a.
C8_CleanUrl ==
    pc = "san_clean" =>
        /\ cleaned = sanitize_name(BeforeFirstMarker(WithoutOneScheme(name_in)))
        /\ name_in = ExampleUrl => cleaned = ExampleCleaned

\* a URL with two scheme prefixes, a query and a fragment has been cleaned
C8_Witness ==
    /\ pc = "san_clean"
    /\ StartsWith(name_in, HttpScheme \o HttpsScheme)
    /\ Contains(name_in, <<"?">>) /\ Contains(name_in, <<"#">>)
    /\ StartsWith(cleaned, <<"h","t","t","p","s","_","/">>)

(***************************************************************************)
(* Inputs of a run of main: what the user types and what the environment   *)
(* answers.                                                                *)
(***************************************************************************)
\* the NUL character, which no path and no argument of a process may hold
Nul == "U+0000"

\* n zeros
Zeros(n) == [i \in 1..n |-> "0"]

\* the port 80 written with one digit more than int() converts
TooLong80 == Zeros(MaxStrDigits - 1) \o <<"8","0">>

ToolInputs     == {<<"1">>, <<"2">>, <<"3">>, <<" ","3">>, <<"4">>}
Targets        == {<<"t">>, <<"t",Nul>>}
DirInputs      == {<<".">>, <<"o"," ","d">>}
ConfirmInputs  == {<<"Y">>, <<"n">>}
OptionInputs   == {<<"1">>, <<"2">>, <<"5">>, <<"1","0">>, <<" ","1">>, <<"1","1">>, <<"x">>, <<"d","o","n","e">>}
StrategyInputs == {<<"1">>, <<"2">>, <<"3">>, <<"x">>}
PortInputs     == {<<"8","0">>, <<"4","4","3">>, <<"0","8","0">>, <<"2","2">>, <<"a","b","c">>, <<Sup2>>, <<"U+0668","U+0660">>, TooLong80, <<"d","o","n","e">>}
ManualInputs   == {<<"/","x">>, <<"8",Nul,"0">>, <<"8","0",",","4","4","3">>, <<"4","4","3">>, <<"8","0",","," ","4","4","3">>, <<>>}
Wordlists      == {<<"w">>, <<"w",Nul>>}

Cwd       == <<"/","w">>
Timestamp == <<"2","0","2","4","_","0","1","_","0","1","_","0","0","_","0","0","_","0","0">>

\* open(output_file, "w"): the file is opened, or open raises an OSError:
\* one of the subclasses named here, or another one ("OSError")
OpenOutcomes ==
    {"ok", "FileNotFoundError", "PermissionError", "IsADirectoryError",
     "NotADirectoryError", "OSError"}
\* subprocess.run: the tool runs, or starting it raises: the binary is not
\* found, may not be executed, or another OSError
RunOutcomes  == {"ran", "FileNotFoundError", "PermissionError", "OSError"}

\* what the handlers of run_nmap and run_gobuster catch
Caught == {"FileNotFoundError"}

HasNul(s) == Nul \in Range(s)

\* how open(output_file, "w") can end: a path with a NUL in it raises
\* ValueError before the file system is asked
OpenResults(output_file) ==
    IF HasNul(output_file) THEN {"ValueError"} ELSE OpenOutcomes

\* how subprocess.run(command.split(), ...) can end: an argument with a NUL
\* in it raises ValueError before the tool is looked up
RunResults(command) ==
    IF HasNul(command) THEN {"ValueError"} ELSE RunOutcomes

\* sep.join(list)
RECURSIVE Join(_, _)
Join(list, sep) ==
    IF list = <<>> THEN <<>>
    ELSE IF Len(list) = 1 THEN list[1]
    ELSE list[1] \o sep \o Join(Tail(list), sep)

\* lines nmap can write
Line22     == <<"2","2","/","t","c","p"," ","o","p","e","n"," ","s","s","h">>
Line80     == <<"8","0","/","t","c","p"," ","o","p","e","n"," ","h","t","t","p">>
Line443    == <<"4","4","3","/","t","c","p"," ","o","p","e","n"," ","h","t","t","p","s">>
LineClosed == <<"8","0","8","0","/","t","c","p"," ","c","l","o","s","e","d"," ","h","t","t","p">>
LineScript == <<"|"," ","h","t","t","p","-","o","p","e","n","-","p","r","o","x","y">>
LineFeed   == <<"\f">> \o Line80
LineSigned == <<"-">> \o Line80
NmapLines  == {Line22, Line80, Line443, LineClosed, LineScript, LineFeed, LineSigned}

\* the line of port 80 with leading zeros: as many digits as int() converts,
\* and one more
LineLongest == Zeros(MaxStrDigits - 2) \o Line80
LineTooLong == Zeros(MaxStrDigits - 1) \o Line80

\* os.path.join(a, b): an absolute b replaces a; otherwise the two are joined
\* by one "/", which is left out when a is empty or ends with "/"
PathJoin(a, b) ==
    IF b # <<>> /\ Head(b) = "/" THEN b
    ELSE IF a = <<>> \/ a[Len(a)] = "/" THEN a \o b
    ELSE a \o <<"/">> \o b

(***************************************************************************)
(* run_nmap's option menu.                                                 *)
(***************************************************************************)
option_mapping ==
    (<<"1">> :> <<"-","s","S">>) @@ (<<"2">> :> <<"-","v">>) @@
    (<<"3">> :> <<"-","p","-">>) @@ (<<"4">> :> <<"-","s","V">>) @@
    (<<"5">> :> <<>>) @@ (<<"6">> :> <<"-","s","n">>) @@
    (<<"7">> :> <<"-","O">>) @@ (<<"8">> :> <<"-","s","C">>) @@
    (<<"9">> :> <<"-","A">>) @@ (<<"1","0">> :> <<"-","n">>)

Done == <<"d","o","n","e">>

\* the choice of a key without the membership test
AddOption_always(options, key) == Append(options, option_mapping[key])

\* the list after the choice of a key of option_mapping
AddOption(options, key) ==
    IF option_mapping[key] \notin Range(options)
    THEN Append(options, option_mapping[key])
    ELSE options

\* the list when the loop is left
FinalOptions(options) == IF options = <<>> THEN <<<<>>>> ELSE options

(***************************************************************************)
(* run_gobuster's URL.                                                     *)
(***************************************************************************)
\* the protocol without the test for port 443
protocol_always_http(port) == <<"h","t","t","p">>

\* "https" if port == 443 else "http"
protocol(port) == IF port = PyInt(Num(443)) THEN <<"h","t","t","p","s">> ELSE <<"h","t","t","p">>

gobuster_url(ip, port) == protocol(port) \o <<":","/","/">> \o ip \o <<":">> \o Format(port)

\* f"gobuster dir -u {url} -w {wordlist}"
gobuster_command(url, wordlist) ==
    <<"g","o","b","u","s","t","e","r"," ","d","i","r"," ","-","u"," ">> \o url \o <<" ","-","w"," ">> \o wordlist

\* f"nmap {nmap_options_str} {ip_address}"
nmap_command(options, ip) ==
    <<"n","m","a","p"," ">> \o Join(options, <<" ">>) \o <<" ">> \o ip

gobuster_file(dir, port) ==
    PathJoin(dir, Format(port) \o <<"_","g","o","b","u","s","t","e","r","_","s","c","a","n","_">> \o Timestamp \o <<".","t","x","t">>)

nmap_file_path(dir, ip) ==
    PathJoin(dir, <<"n","m","a","p","_","s","c","a","n","_">> \o clean_url(ip) \o <<"_">> \o Timestamp \o <<".","t","x","t">>)

\* a selection that leaves the port available
RemoveFirst_keeps(list, x) == list

\* list.remove(x): the list without the first occurrence of x
RemoveFirst(list, x) ==
    LET i == CHOOSE k \in 1..Len(list) : list[k] = x /\ \A j \in 1..(k - 1) : list[j] # x
    IN  SubSeq(list, 1, i - 1) \o SubSeq(list, i + 1, Len(list))

\* one scan step: the tool, the port and URL (gobuster), the output file, how
\* open and subprocess.run ended, and whether "Error saving results" was printed
Step(tool, port, url, file, opened, ran, reported) ==
    [tool |-> tool, port |-> port, url |-> url, file |-> file,
     open |-> opened, run |-> ran, reported |-> reported]

NoPort == PyStr(<<>>)

(***************************************************************************)
(* main.                                                                   *)
(***************************************************************************)
Init ==
    /\ pc = "choose_tool"
    /\ fault = "none" /\ choice = <<>> /\ ip_address = <<>> /\ output_dir = <<>>
    /\ nmap_options = <<>> /\ opt_choice = <<>> /\ prompt = <<>>
    /\ port_choice = <<>>
    /\ nmap_file = NoFile
    /\ parsed_ports = {} /\ web_ports = <<>> /\ gobuster_ports = <<>>
    /\ todo = <<>> /\ calls = <<>>
    /\ name_in = <<>> /\ once = <<>> /\ twice = <<>> /\ cleaned = <<>>

\* main, lines 160-167: the tool choice and the target
ChooseTool ==
    /\ pc = "choose_tool"
    /\ \E raw \in ToolInputs, target \in Targets :
        LET c == Strip(raw)
        IN  /\ choice' = c
            /\ IF c \in {<<"1">>, <<"2">>, <<"3">>}
               THEN /\ ip_address' = Strip(target)
                    /\ pc' = "get_dir"
               ELSE /\ pc' = "done"
                    /\ UNCHANGED ip_address
    /\ UNCHANGED <<fault, output_dir, nmap_options, opt_choice, prompt, port_choice,
                   nmap_file, parsed_ports, web_ports, gobuster_ports, todo, calls>>
    /\ UNCHANGED sanVars

\* get_output_directory: one round of its loop
GetOutputDirectory ==
    /\ pc = "get_dir"
    /\ \E raw \in DirInputs, answer \in ConfirmInputs, exists \in BOOLEAN,
          made \in {"ok", "OSError"} :
        LET typed     == Strip(raw)
            sanitized == sanitize_name(typed)
            declined  == sanitized # typed /\ ~LowersToY(Strip(answer))
            resolved  == IF sanitized = <<".">> THEN Cwd ELSE sanitized
            present   == exists \/ resolved = Cwd
        IN  IF declined \/ (~present /\ made = "OSError")
            THEN UNCHANGED <<pc, output_dir>>
            ELSE /\ output_dir' = resolved
                 /\ pc' = IF choice = <<"2">> THEN "manual_ports" ELSE "nmap_loop"
    /\ UNCHANGED <<fault, choice, ip_address, nmap_options, opt_choice, prompt,
                   port_choice, nmap_file, parsed_ports, web_ports, gobuster_ports,
                   todo, calls>>
    /\ UNCHANGED sanVars

\* run_nmap, lines 95-109: one round of the option loop
NmapOption ==
    /\ pc = "nmap_loop"
    /\ \E raw \in OptionInputs :
        LET c == Strip(raw)
        IN  /\ opt_choice' = c
            /\ IF c = Done
               THEN /\ nmap_options' = FinalOptions(nmap_options)
                    /\ pc' = "nmap_run"
               ELSE IF c \in DOMAIN option_mapping
               THEN /\ nmap_options' = AddOption(nmap_options, c)
                    /\ pc' = "nmap_loop"
               ELSE /\ UNCHANGED nmap_options
                    /\ pc' = "nmap_loop"
    /\ UNCHANGED <<fault, choice, ip_address, output_dir, prompt, port_choice,
                   nmap_file, parsed_ports, web_ports, gobuster_ports, todo, calls>>
    /\ UNCHANGED sanVars

\* run_nmap, lines 111-132: the scan itself
NmapRun ==
    /\ pc = "nmap_run"
    /\ \E opened \in OpenResults(nmap_file_path(output_dir, ip_address)),
          ran \in RunResults(nmap_command(nmap_options, ip_address)),
          out \in SeqsUpTo(NmapLines, MaxScanLines) :
        LET output_file == nmap_file_path(output_dir, ip_address)
        IN  \/ /\ opened = "ok" /\ ran = "ran"
               /\ nmap_file' = [path |-> output_file, exists |-> TRUE, lines |-> out]
               /\ calls' = Append(calls, Step("nmap", NoPort, <<>>, output_file, opened, ran, FALSE))
               /\ pc' = "parse"
               /\ UNCHANGED fault
            \/ /\ opened = "ok" /\ ran \in Caught
               /\ nmap_file' = [path |-> output_file, exists |-> TRUE, lines |-> <<>>]
               /\ calls' = Append(calls, Step("nmap", NoPort, <<>>, output_file, opened, ran, TRUE))
               /\ pc' = "parse"
               /\ UNCHANGED fault
            \/ /\ opened = "ok" /\ ran \notin Caught \cup {"ran"}
               /\ nmap_file' = [path |-> output_file, exists |-> TRUE, lines |-> <<>>]
               /\ calls' = Append(calls, Step("nmap", NoPort, <<>>, output_file, opened, ran, FALSE))
               /\ fault' = ran
               /\ pc' = "crashed"
            \/ /\ opened \in Caught
               /\ nmap_file' = [path |-> output_file, exists |-> FALSE, lines |-> <<>>]
               /\ calls' = Append(calls, Step("nmap", NoPort, <<>>, output_file, opened, "not_called", TRUE))
               /\ pc' = "parse"
               /\ UNCHANGED fault
            \/ /\ opened \notin Caught \cup {"ok"}
               /\ nmap_file' = [path |-> output_file, exists |-> FALSE, lines |-> <<>>]
               /\ calls' = Append(calls, Step("nmap", NoPort, <<>>, output_file, opened, "not_called", FALSE))
               /\ fault' = opened
               /\ pc' = "crashed"
    /\ nmap_options' = <<>>
    /\ UNCHANGED <<choice, ip_address, output_dir, opt_choice, prompt, port_choice,
                   parsed_ports, web_ports, gobuster_ports, todo>>
    /\ UNCHANGED sanVars

\* main, lines 172-174 and 247-249: parse_nmap_output and the test of its result
Parse ==
    /\ pc = "parse"
    /\ LET r == parse_nmap_output(nmap_file)
       IN  \/ /\ r.raised = "none"
              /\ parsed_ports' = r.ports
              /\ web_ports' \in ListsOf(r.ports)
              /\ pc' = IF r.ports = {} THEN "done" ELSE "review"
              /\ UNCHANGED fault
           \/ /\ r.raised # "none"
              /\ fault' = r.raised
              /\ pc' = "crashed"
              /\ UNCHANGED <<parsed_ports, web_ports>>
    /\ UNCHANGED <<choice, ip_address, output_dir, nmap_options, opt_choice, prompt,
                   port_choice, nmap_file, gobuster_ports, todo, calls>>
    /\ UNCHANGED sanVars

\* main, lines 177-186 and 252-262: the result file is read again for review;
\* it may have been removed since it was parsed
Review ==
    /\ pc = "review"
    /\ \/ /\ pc' = "strategy"
          /\ UNCHANGED nmap_file
       \/ /\ nmap_file' = [nmap_file EXCEPT !.exists = FALSE, !.lines = <<>>]
          /\ pc' = IF choice = <<"3">> THEN "done" ELSE "strategy"
    /\ UNCHANGED <<fault, choice, ip_address, output_dir, nmap_options, opt_choice,
                   prompt, port_choice, parsed_ports, web_ports, gobuster_ports,
                   todo, calls>>
    /\ UNCHANGED sanVars

\* main, lines 189-203, 226-231 and 265-278, 299-303: the strategy prompt
Strategy ==
    /\ pc = "strategy"
    /\ \E raw \in StrategyInputs :
        LET c == Strip(raw)
        IN  /\ prompt' = c
            /\ IF c = <<"1">>
               THEN /\ todo' = web_ports
                    /\ pc' = IF web_ports = <<>> THEN "done" ELSE "gobuster"
                    /\ UNCHANGED gobuster_ports
               ELSE IF c = <<"2">>
               THEN /\ gobuster_ports' = <<>>
                    /\ pc' = "select"
                    /\ UNCHANGED todo
               ELSE IF c = <<"3">>
               THEN /\ pc' = "done"
                    /\ UNCHANGED <<todo, gobuster_ports>>
               ELSE /\ pc' = "strategy"
                    /\ UNCHANGED <<todo, gobuster_ports>>
    /\ UNCHANGED <<fault, choice, ip_address, output_dir, nmap_options, opt_choice,
                   port_choice, nmap_file, parsed_ports, web_ports, calls>>
    /\ UNCHANGED sanVars

\* port_choice.isdigit() and int(port_choice) in web_ports
IsAvailable(typed, available) ==
    LET n == int(typed)
    IN  isdigit(typed) /\ n.raised = "none" /\ PyInt(n.val) \in Range(available)

\* main, lines 204-225 and 279-298: one round of the port selection loop
Select ==
    /\ pc = "select"
    /\ \E raw \in PortInputs :
        LET c             == Strip(raw)
            selected_port == int(c)
        IN  /\ port_choice' = c
            /\ IF c = Done
               THEN /\ todo' = gobuster_ports
                    /\ pc' = IF gobuster_ports = <<>> THEN "done" ELSE "gobuster"
                    /\ UNCHANGED <<web_ports, gobuster_ports, fault>>
               ELSE IF isdigit(c) /\ selected_port.raised # "none"
               THEN /\ fault' = selected_port.raised
                    /\ pc' = "crashed"
                    /\ UNCHANGED <<web_ports, gobuster_ports, todo>>
               ELSE IF IsAvailable(c, web_ports)
               THEN /\ gobuster_ports' = Append(gobuster_ports, PyInt(selected_port.val))
                    /\ web_ports' = RemoveFirst(web_ports, PyInt(selected_port.val))
                    /\ pc' = "select"
                    /\ UNCHANGED <<todo, fault>>
               ELSE /\ pc' = "select"
                    /\ UNCHANGED <<web_ports, gobuster_ports, todo, fault>>
    /\ UNCHANGED <<choice, ip_address, output_dir, nmap_options, opt_choice, prompt,
                   nmap_file, parsed_ports, calls>>
    /\ UNCHANGED sanVars

\* main, lines 239-242: the ports typed as a comma-separated list
ManualPorts ==
    /\ pc = "manual_ports"
    /\ \E raw \in ManualInputs :
        LET pieces == Split(raw, ",")
            ports  == [i \in 1..Len(pieces) |-> PyStr(pieces[i])]
        IN  /\ web_ports' = ports
            /\ todo' = ports
    /\ pc' = "gobuster"
    /\ UNCHANGED <<fault, choice, ip_address, output_dir, nmap_options, opt_choice,
                   prompt, port_choice, nmap_file, parsed_ports, gobuster_ports, calls>>
    /\ UNCHANGED sanVars

\* run_gobuster, lines 137-151: one round of the for loop
Gobuster ==
    /\ pc = "gobuster"
    /\ todo # <<>>
    /\ \E wordlist \in Wordlists :
       \E opened \in OpenResults(gobuster_file(output_dir, Head(todo))),
          ran \in RunResults(gobuster_command(gobuster_url(ip_address, Head(todo)),
                                              Strip(wordlist))) :
        LET port        == Head(todo)
            url         == gobuster_url(ip_address, port)
            output_file == gobuster_file(output_dir, port)
            next        == IF Tail(todo) = <<>> THEN "done" ELSE "gobuster"
        IN  \/ /\ opened = "ok" /\ ran = "ran"
               /\ calls' = Append(calls, Step("gobuster", port, url, output_file, opened, ran, FALSE))
               /\ pc' = next
               /\ UNCHANGED fault
            \/ /\ opened = "ok" /\ ran \in Caught
               /\ calls' = Append(calls, Step("gobuster", port, url, output_file, opened, ran, TRUE))
               /\ pc' = next
               /\ UNCHANGED fault
            \/ /\ opened = "ok" /\ ran \notin Caught \cup {"ran"}
               /\ calls' = Append(calls, Step("gobuster", port, url, output_file, opened, ran, FALSE))
               /\ fault' = ran
               /\ pc' = "crashed"
            \/ /\ opened \in Caught
               /\ calls' = Append(calls, Step("gobuster", port, url, output_file, opened, "not_called", TRUE))
               /\ pc' = next
               /\ UNCHANGED fault
            \/ /\ opened \notin Caught \cup {"ok"}
               /\ calls' = Append(calls, Step("gobuster", port, url, output_file, opened, "not_called", FALSE))
               /\ fault' = opened
               /\ pc' = "crashed"
    /\ todo' = Tail(todo)
    /\ UNCHANGED <<choice, ip_address, output_dir, nmap_options, opt_choice, prompt,
                   port_choice, nmap_file, parsed_ports, web_ports, gobuster_ports>>
    /\ UNCHANGED sanVars

Next ==
    \/ ChooseTool
    \/ GetOutputDirectory
    \/ NmapOption
    \/ NmapRun
    \/ Parse
    \/ Review
    \/ Strategy
    \/ Select
    \/ ManualPorts
    \/ Gobuster

Spec == Init /\ [][Next]_vars

(***************************************************************************)
(* The parser on its own: a result file is drawn and parsed.               *)
(***************************************************************************)
ResultFiles ==
    {NoFile} \cup
    {[path |-> <<"/","w","/","r",".","t","x","t">>, exists |-> TRUE, lines |-> ls] :
        ls \in SeqsUpTo(NmapLines, MaxLines)
               \cup {head \o <<long>> : head \in SeqsUpTo(NmapLines, 1),
                                        long \in {LineLongest, LineTooLong}}}

InitParse ==
    /\ pc = "parse"
    /\ nmap_file \in ResultFiles
    /\ choice \in {<<"1">>, <<"3">>}
    /\ fault = "none" /\ ip_address = <<>> /\ output_dir = <<>>
    /\ nmap_options = <<>> /\ opt_choice = <<>> /\ prompt = <<>>
    /\ port_choice = <<>>
    /\ parsed_ports = {} /\ web_ports = <<>> /\ gobuster_ports = <<>>
    /\ todo = <<>> /\ calls = <<>>
    /\ name_in = <<>> /\ once = <<>> /\ twice = <<>> /\ cleaned = <<>>

NextParse == Parse

SpecParse == InitParse /\ [][NextParse]_vars


(***************************************************************************)
(* Properties of main and of the parser.                                   *)
(***************************************************************************)
NoDuplicates(list) == \A i, j \in 1..Len(list) : list[i] = list[j] => i = j

IsPrefix(a, b) == Len(a) <= Len(b) /\ SubSeq(b, 1, Len(a)) = a

GobusterCalls == SelectSeq(calls, LAMBDA c : c.tool = "gobuster")

\* the int a string of decimal digits stands for
NumeralValue(s) == MakeInt(FALSE, Magnitude(s))

\* the URL has the given scheme, the target and the decimal numeral of the int n
UrlIs(url, scheme, ip, n) ==
    LET front  == scheme \o <<":","/","/">> \o ip \o <<":">>
        rest   == SubSeq(url, Len(front) + 1, Len(url))
        digits == IF n.neg THEN Tail(rest) ELSE rest
    IN  /\ StartsWith(url, front)
        /\ n.neg => rest # <<>> /\ Head(rest) = "-"
        /\ digits # <<>>
        /\ \A i \in 1..Len(digits) : digits[i] \in Digits
        /\ NumeralValue(digits).mag = n.mag

\* C1: on the paths that start with the port scan, after the answer "1" and
\* while every output file could be opened, the content-discovery calls are
\* one per port of the parsed list, in the order of the list, each against
\* https://<target>:<port> for port 443 and http://<target>:<port> for any
\* other port; when main is done every port has had its call.
C1_ScanAll ==
    (/\ choice \in {<<"1">>, <<"3">>}
     /\ prompt = <<"1">>
     /\ \A i \in 1..Len(calls) : calls[i].tool = "gobuster" => calls[i].open = "ok")
    =>
    LET g == GobusterCalls
    IN  /\ Len(g) = Len(web_ports) - Len(todo)
        /\ \A i \in 1..Len(g) :
              /\ g[i].port = web_ports[i]
              /\ g[i].port.kind = "int"
              /\ UrlIs(g[i].url, IF g[i].port.num = Num(443) THEN <<"h","t","t","p","s">> ELSE <<"h","t","t","p">>,
                       ip_address, g[i].port.num)
        /\ pc = "done" =>
              /\ Len(g) = Len(web_ports)
              /\ {g[i].port : i \in 1..Len(g)} = parsed_ports
              /\ Len(g) = Cardinality(parsed_ports)

\* scan all has run to the end over the ports 80 and 443
C1_Witness ==
    /\ pc = "done" /\ choice = <<"3">> /\ prompt = <<"1">>
    /\ parsed_ports = {PyInt(Num(80)), PyInt(Num(443))}
    /\ Len(GobusterCalls) = 2
    /\ \A i \in 1..Len(calls) : calls[i].open = "ok"
    /\ \E i \in 1..2 : GobusterCalls[i].url = <<"h","t","t","p","s",":","/","/","t",":","4","4","3">>

\* the typed text is a decimal number, in the digits of any script, that is
\* in the list of available ports
NamesAvailablePort(typed, available) ==
    /\ typed # <<>>
    /\ \A i \in 1..Len(typed) : typed[i] \in DecimalChars
    /\ LET n == NumeralValue(typed)
       IN  \E k \in 1..Len(available) :
              available[k].kind = "int" /\ available[k].num = n

\* C2: in the port selection loop the selected and the available list have
\* no duplicate, are disjoint and together hold exactly the ports the parser
\* returned; the lists change only by an accepted port moving from the
\* available to the end of the selected list; an input that is not an
\* available port changes neither list.  An input that names an available
\* port is accepted when it has at most MaxStrDigits digits; a longer one
\* stops main with ValueError and changes neither list.
C2_Selection ==
    /\ [](choice # <<"2">> =>
            /\ NoDuplicates(gobuster_ports) /\ NoDuplicates(web_ports)
            /\ Range(gobuster_ports) \cap Range(web_ports) = {}
            /\ Range(gobuster_ports) \cup Range(web_ports) = parsed_ports)
    /\ [][pc = "select" =>
            IF NamesAvailablePort(port_choice', web_ports)
            THEN IF Len(port_choice') <= MaxStrDigits
                 THEN LET p == PyInt(NumeralValue(port_choice'))
                      IN  /\ gobuster_ports' = Append(gobuster_ports, p)
                          /\ p \in Range(web_ports)
                          /\ p \notin Range(web_ports')
                          /\ Len(web_ports') = Len(web_ports) - 1
                          /\ pc' = "select"
                 ELSE /\ UNCHANGED <<web_ports, gobuster_ports>>
                      /\ pc' = "crashed" /\ fault' = "ValueError"
            ELSE UNCHANGED <<web_ports, gobuster_ports>>]_vars

\* port 80 has been selected, typed with a leading zero, and 443 is left
C2_Witness ==
    /\ pc = "select"
    /\ gobuster_ports = <<PyInt(Num(80))>>
    /\ web_ports = <<PyInt(Num(443))>>
    /\ port_choice = <<"0","8","0">>

\* C3: parse_nmap_output never raises, whatever the result file holds, and
\* returns the empty list for a missing file.
C3_NeverRaises ==
    pc # "parse" =>
        /\ fault = "none"
        /\ ~nmap_file.exists => web_ports = <<>>

\* C4: a scan step whose output file cannot be opened, whatever the reason,
\* reports the error, spawns nothing and returns; no error of a scan step
\* leaves main uncaught.
C4_OpenFailureHandled ==
    /\ \A i \in 1..Len(calls) :
          calls[i].open # "ok" => calls[i].reported /\ calls[i].run = "not_called"
    /\ fault \notin (OpenOutcomes \cup RunOutcomes \cup {"ValueError"}) \ {"ok", "ran"}

\* the line holds "open" and holds "http" or "https"
IsCandidate(line) ==
    /\ \E i \in 1..(Len(line) - 3) : SubSeq(line, i, i + 3) = <<"o","p","e","n">>
    /\ \E i \in 1..(Len(line) - 3) : SubSeq(line, i, i + 3) = <<"h","t","t","p">>

\* the longest prefix of the line made of decimal digits
LeadingDigits(line) == SubSeq(line, 1, Len(line) - Len(LStrip(line, Digits)))

\* the line without its minus sign, when it has one
Unsigned(line) == IF line # <<>> /\ Head(line) = "-" THEN Tail(line) ELSE line

\* the line starts with an integer, negative or not, and "/"
StartsWithPort(line) ==
    LET u == Unsigned(line)
        d == LeadingDigits(u)
    IN  d # <<>> /\ Len(u) > Len(d) /\ u[Len(d) + 1] = "/"

\* the integer the line starts with
LeadingInteger(line) ==
    LET v == NumeralValue(LeadingDigits(Unsigned(line)))
    IN  MakeInt(Unsigned(line) # line, v.mag)

CandidateLines(file) == {l \in Range(file.lines) : IsCandidate(l)}

\* C5: for a readable file whose candidate lines all start with an integer
\* and "/", the parser returns exactly the leading integers of the candidate
\* lines, each once; every returned port starts a line of the file; the
\* lines for 22 ssh, 80 http and 443 https give exactly 80 and 443.
C5_ParsedPorts ==
    (/\ pc # "parse"
     /\ nmap_file.exists
     /\ \A l \in CandidateLines(nmap_file) : StartsWithPort(l))
    =>
    /\ fault = "none"
    /\ parsed_ports = {PyInt(LeadingInteger(l)) : l \in CandidateLines(nmap_file)}
    /\ Range(web_ports) = parsed_ports
    /\ NoDuplicates(web_ports)
    /\ \A p \in parsed_ports :
          \E l \in Range(nmap_file.lines) :
              StartsWithPort(l) /\ PyInt(LeadingInteger(l)) = p
    /\ nmap_file.lines = <<Line22, Line80, Line443>> =>
          parsed_ports = {PyInt(Num(80)), PyInt(Num(443))}

\* C9: in the option loop of run_nmap the list never holds a flag twice and
\* only grows at its end, so the flags stay in the order of their first
\* selection; an input that is neither a menu number nor "done", and a
\* repeated selection, leave the list as it is and the loop running; the
\* loop is left only on "done", and then the list is not empty.
C9_OptionLoop ==
    /\ [](NoDuplicates(nmap_options))
    /\ [](pc = "nmap_run" => opt_choice = Done /\ nmap_options # <<>>)
    /\ [][pc = "nmap_loop" =>
            /\ IsPrefix(nmap_options, nmap_options')
            /\ pc' # "nmap_loop" => opt_choice' = Done /\ pc' = "nmap_run"
            /\ (opt_choice' # Done /\ opt_choice' \notin DOMAIN option_mapping) =>
                  nmap_options' = nmap_options /\ pc' = "nmap_loop"
            /\ opt_choice' \in DOMAIN option_mapping =>
                  /\ pc' = "nmap_loop"
                  /\ IF option_mapping[opt_choice'] \in Range(nmap_options)
                     THEN nmap_options' = nmap_options
                     ELSE nmap_options' = Append(nmap_options, option_mapping[opt_choice'])
         ]_vars

\* the loop has been left with -v selected before -sS and the default flag
C9_Witness ==
    /\ pc = "nmap_run"
    /\ nmap_options = <<<<"-","v">>, <<"-","s","S">>, <<>>, <<"-","n">>>>

\* the number a port value stands for, -1 when it stands for none
PortNumber(port) ==
    IF port.kind = "int" THEN port.num
    ELSE IF int(port.text).raised = "none" THEN int(port.text).val ELSE Num(0 - 1)

\* C10: on every path the URL of a content-discovery call uses https exactly
\* when its port is 443, whether the port was parsed or typed.
C10_SameProtocol ==
    \A i \in 1..Len(calls) :
        calls[i].tool = "gobuster" =>
            IF PortNumber(calls[i].port) = Num(443)
            THEN StartsWith(calls[i].url, <<"h","t","t","p","s",":","/","/">>)
            ELSE StartsWith(calls[i].url, <<"h","t","t","p",":","/","/">>)

====
